---- MODULE Spec2Model ----
(***************************************************************************)
(* Model of invokeai/backend/model_manager/cache.py: the RAM model cache   *)
(* (ModelCache), its records (_CacheRecord) and the context manager        *)
(* returned by get_model (ModelCache.ModelLocker).                         *)
(*                                                                         *)
(* Sizes are counted in units of GIG.  The provider (ModelBase), the path  *)
(* check, torch's transfer primitive and sys.getrefcount are inputs of the *)
(* actions.  A loaded torch module is identified with the _CacheRecord     *)
(* that wraps it: record.model is set once and never reassigned.           *)
(***************************************************************************)
EXTENDS Integers, Sequences, FiniteSets, TLC

\* ---------------------------------------------------------------- bounds
MaxGuards == 2
MaxUnderflow == 1
MaxOps == 2

\* ------------------------------------------------------------- constants
GIG == 1

\* -------------------------------------------------------- input domains
None == "None"
RequestSeq == << <<"sd", None>>, <<"onnx", None>>, <<"sd", "tokenizer">> >>
Requests == {RequestSeq[i] : i \in 1 .. Len(RequestSeq)}
Sizes == {1, 3}
RefCounts == {2, 4}
CacheSizeChoices == {2}
VramSizeChoices == {0, 1}
ExtVram == {0, 1}
FailPoints == 0 .. 2

Guards == 1 .. MaxGuards
RecIds == 1 .. (Len(RequestSeq) + MaxGuards)
NoRec == 0

\* ----------------------------------------------------------------- state
VARIABLES
    max_cache_size,       \* ModelCache.max_cache_size (in GIG)
    max_vram_cache_size,  \* ModelCache.max_vram_cache_size (in GIG)
    lazy_offloading,      \* ModelCache.lazy_offloading
    stats,                \* ModelCache.stats (on = FALSE models None)
    model_infos,          \* keys of ModelCache.model_infos
    cached_models,        \* ModelCache._cached_models, in insertion order
    cache_stack,          \* ModelCache._cache_stack
    records,              \* the _CacheRecord objects alive in the process
    lockers,              \* the ModelLocker objects the callers hold
    last                  \* the last call made and its outcome

vars == <<max_cache_size, max_vram_cache_size, lazy_offloading,
          stats, model_infos, cached_models, cache_stack, records, lockers,
          last>>

config == <<max_cache_size, max_vram_cache_size, lazy_offloading>>

\* ----------------------------------------------------------- _CacheRecord
DeadRecord == [live |-> FALSE, size |-> 0, locks |-> 0, device |-> "cpu", hasTo |-> FALSE]

CacheRecordPrelocked(size, hasTo) ==
    [live |-> TRUE, size |-> size, locks |-> 1, device |-> "cpu", hasTo |-> hasTo]

CacheRecord(size, hasTo) ==
    [live |-> TRUE, size |-> size, locks |-> 0, device |-> "cpu", hasTo |-> hasTo]

lock(rec) == [rec EXCEPT !.locks = @ + 1]

unlock(rec) == [rec EXCEPT !.locks = @ - 1]

\* the assert of _CacheRecord.unlock, evaluated on the decremented record
unlock_assert_fails(rec) == ~(rec.locks >= 0)

locked(rec) == rec.locks > 0

loaded(rec) == IF rec.hasTo THEN rec.device # "cpu" ELSE FALSE

\* ------------------------------------------------------------- CacheStats
NoStats == [on |-> FALSE, hits |-> 0, misses |-> 0, high_watermark |-> 0,
            in_cache |-> 0, cleared |-> 0, cache_size |-> 0,
            loaded_model_sizes |-> [k \in Requests |-> 0]]

CacheStats == [NoStats EXCEPT !.on = TRUE]

\* ------------------------------------------------------------ ModelLocker
NoLocker == [used |-> FALSE, key |-> <<"sd", None>>, rec |-> NoRec,
             gpu_load |-> FALSE, open |-> FALSE]

\* ---------------------------------------------------------------- helpers
get_key(model_path, submodel_type) == <<model_path, submodel_type>>

IsOnnx(model_key) == model_key[1] = "onnx"

Truthy(n) == n # 0

RECURSIVE Lookup(_, _)
Lookup(cm, key) ==
    IF cm = <<>> THEN NoRec
    ELSE IF Head(cm).key = key THEN Head(cm).rec
    ELSE Lookup(Tail(cm), key)

RECURSIVE DictDel(_, _)
DictDel(cm, key) ==
    IF cm = <<>> THEN <<>>
    ELSE IF Head(cm).key = key THEN Tail(cm)
    ELSE <<Head(cm)>> \o DictDel(Tail(cm), key)

DictKeys(cm) == {cm[i].key : i \in 1 .. Len(cm)}

DictRecs(cm) == {cm[i].rec : i \in 1 .. Len(cm)}

\* list.remove(x): drops the first occurrence; the ValueError of a missing
\* element is suppressed by both callers
RECURSIVE ListRemove(_, _)
ListRemove(s, x) ==
    IF s = <<>> THEN <<>>
    ELSE IF Head(s) = x THEN Tail(s)
    ELSE <<Head(s)>> \o ListRemove(Tail(s), x)

ListDelAt(s, pos) == SubSeq(s, 1, pos - 1) \o SubSeq(s, pos + 1, Len(s))

RECURSIVE SumSizes(_, _)
SumSizes(cm, recs) ==
    IF cm = <<>> THEN 0
    ELSE recs[Head(cm).rec].size + SumSizes(Tail(cm), recs)

cache_size_bytes(cm, recs) == SumSizes(cm, recs)

\* torch.cuda.memory_allocated(): the modules alive on the execution device
\* plus what the rest of the process holds there (ext)
RECURSIVE SumVram(_, _)
SumVram(ids, recs) ==
    IF ids = {} THEN 0
    ELSE LET r == CHOOSE x \in ids : TRUE
         IN  (IF recs[r].live /\ recs[r].hasTo /\ recs[r].device = "cuda"
              THEN recs[r].size ELSE 0) + SumVram(ids \ {r}, recs)

ModelVram(recs) == SumVram(RecIds, recs)

memory_allocated(recs, ext) == ext + ModelVram(recs)

\* ------------------------------------------------------- _make_cache_room
\* line 378: not cache_entry.locked and refs <= 3 if "onnx" in model_key else 2
EvictConditionOnnxOnly(model_key, cache_entry, refs) ==
    IsOnnx(model_key) /\ ~locked(cache_entry) /\ refs <= 3

EvictCondition(model_key, cache_entry, refs) ==
    IF IsOnnx(model_key) THEN (~locked(cache_entry) /\ refs <= 3) ELSE Truthy(2)

\* the while loop of lines 343-390; pos is the 1-based index of the next
\* element of _cache_stack
RECURSIVE RoomLoop(_, _, _, _, _, _, _, _, _, _)
RoomLoop(cm, stack, st, recs, refs, current_size, bytes_needed, maximum_size, pos, scan) ==
    IF current_size + bytes_needed > maximum_size /\ pos <= Len(stack)
    THEN LET model_key == stack[pos]
             r == Lookup(cm, model_key)
             cache_entry == recs[r]
             evict == EvictCondition(model_key, cache_entry, refs[model_key])
             ev == [key |-> model_key, evicted |-> evict, locked |-> locked(cache_entry),
                    refs |-> IF evict THEN 0 ELSE refs[model_key]]
         IN  IF EvictCondition(model_key, cache_entry, refs[model_key])
             THEN RoomLoop(DictDel(cm, model_key), ListDelAt(stack, pos),
                           IF st.on THEN [st EXCEPT !.cleared = @ + 1] ELSE st,
                           recs, refs, current_size - cache_entry.size,
                           bytes_needed, maximum_size, pos, Append(scan, ev))
             ELSE RoomLoop(cm, stack, st, recs, refs, current_size,
                           bytes_needed, maximum_size, pos + 1, Append(scan, ev))
    ELSE [cm |-> cm, stack |-> stack, stats |-> st, scan |-> scan]

make_cache_room_to_budget(cm, stack, st, recs, refs, model_size) ==
    RoomLoop(cm, stack, st, recs, refs, cache_size_bytes(cm, recs), 0,
             max_cache_size * GIG, 1, <<>>)

make_cache_room(cm, stack, st, recs, refs, model_size) ==
    RoomLoop(cm, stack, st, recs, refs, cache_size_bytes(cm, recs), model_size,
             max_cache_size * GIG, 1, <<>>)

\* ------------------------------------------------ _offload_unlocked_models
\* sorted(self._cached_models.items(), key=lambda x: x[1].size): stable
RECURSIVE InsertBySize(_, _, _)
InsertBySize(sorted, item, recs) ==
    IF sorted = <<>> THEN <<item>>
    ELSE IF recs[item.rec].size < recs[Head(sorted).rec].size
         THEN <<item>> \o sorted
         ELSE <<Head(sorted)>> \o InsertBySize(Tail(sorted), item, recs)

SortByInsertion(cm, recs) == cm

RECURSIVE SortBySize(_, _)
SortBySize(cm, recs) ==
    IF cm = <<>> THEN <<>>
    ELSE InsertBySize(SortBySize(SubSeq(cm, 1, Len(cm) - 1), recs), cm[Len(cm)], recs)

\* one model.to(device) call, the nTo-th of the handler: it raises when
\* nTo = failAt, and then leaves the module on either device (failMoved)
TransferRaises(nTo, failAt) == nTo = failAt

Transfer(rec, device, nTo, failAt, failMoved) ==
    IF TransferRaises(nTo, failAt)
    THEN (IF failMoved THEN [rec EXCEPT !.device = device] ELSE rec)
    ELSE [rec EXCEPT !.device = device]

OffloadCandidateAnyLoaded(cache_entry) == loaded(cache_entry)

OffloadCandidate(cache_entry) == ~locked(cache_entry) /\ loaded(cache_entry)

\* the for loop of lines 403-412
RECURSIVE OffloadLoop(_, _, _, _, _, _, _, _)
OffloadLoop(items, recs, vram_in_use, reserved, nTo, failAt, failMoved, moved) ==
    IF items = <<>> \/ vram_in_use <= reserved
    THEN [recs |-> recs, raised |-> FALSE, nTo |-> nTo, moved |-> moved]
    ELSE LET r == Head(items).rec
             cache_entry == recs[r]
             after == Transfer(cache_entry, "cpu", nTo + 1, failAt, failMoved)
             vram_used == (IF after.device = "cpu" THEN 0 ELSE after.size) - cache_entry.size
             mv == [key |-> Head(items).key, size |-> cache_entry.size,
                    vram_before |-> vram_in_use,
                    vram_after |-> vram_in_use + vram_used]
         IN  IF OffloadCandidate(cache_entry)
             THEN IF TransferRaises(nTo + 1, failAt)
                  THEN [recs |-> [recs EXCEPT ![r] = after], raised |-> TRUE,
                        nTo |-> nTo + 1, moved |-> moved]
                  ELSE OffloadLoop(Tail(items), [recs EXCEPT ![r] = after],
                                   vram_in_use + vram_used, reserved, nTo + 1,
                                   failAt, failMoved, Append(moved, mv))
             ELSE OffloadLoop(Tail(items), recs, vram_in_use, reserved, nTo,
                              failAt, failMoved, moved)

\* the result carries, in vram, the value read at line 401
offload_unlocked_models_no_reserve(cm, recs, ext, nTo, failAt, failMoved) ==
    LET res == OffloadLoop(SortBySize(cm, recs), recs, memory_allocated(recs, ext),
                           -1, nTo, failAt, failMoved, <<>>)
    IN  [recs |-> res.recs, raised |-> res.raised, nTo |-> res.nTo,
         moved |-> res.moved, vram |-> <<memory_allocated(recs, ext)>>]

offload_unlocked_models(cm, recs, ext, nTo, failAt, failMoved) ==
    LET res == OffloadLoop(SortBySize(cm, recs), recs, memory_allocated(recs, ext),
                           max_vram_cache_size * GIG, nTo, failAt, failMoved, <<>>)
    IN  [recs |-> res.recs, raised |-> res.raised, nTo |-> res.nTo,
         moved |-> res.moved, vram |-> <<memory_allocated(recs, ext)>>]


\* ------------------------------------------------------ object identities
\* A record stays alive while the cache or a ModelLocker refers to it.  Object
\* identities are arbitrary, so every action renames them to a canonical
\* choice: the record registered under the i-th request has identity i, a
\* record only ModelLockers refer to has identity Len(RequestSeq) + g for the
\* first such locker g.
KeyIndex(key) == CHOOSE i \in 1 .. Len(RequestSeq) : RequestSeq[i] = key

KeyOfRec(cm, r) == cm[CHOOSE i \in 1 .. Len(cm) : cm[i].rec = r].key

Holders(lks, r) == {g \in Guards : lks[g].used /\ lks[g].rec = r}

MinOf(S) == CHOOSE x \in S : \A y \in S : x <= y

CanonId(r, cm, lks) ==
    IF r \in DictRecs(cm) THEN KeyIndex(KeyOfRec(cm, r))
    ELSE IF Holders(lks, r) # {} THEN Len(RequestSeq) + MinOf(Holders(lks, r))
    ELSE NoRec

CanonRecs(recs, cm, lks) ==
    [n \in RecIds |->
        LET src == {r \in RecIds : recs[r].live /\ CanonId(r, cm, lks) = n}
        IN  IF src = {} THEN DeadRecord ELSE recs[CHOOSE r \in src : TRUE]]

CanonDict(cm, lks) ==
    [i \in 1 .. Len(cm) |-> [cm[i] EXCEPT !.rec = CanonId(@, cm, lks)]]

CanonLockers(cm, lks) ==
    [g \in Guards |-> IF lks[g].used
                      THEN [lks[g] EXCEPT !.rec = CanonId(@, cm, lks)]
                      ELSE lks[g]]

Max(a, b) == IF a >= b THEN a ELSE b

\* last.raised names what the call raised: "notfound" (line 187), "load" (line
\* 212), "offload" (a transfer inside _offload_unlocked_models), "transfer"
\* (the locker's own model.to), "assert" (line 88) or "none"; last.own names
\* the transfer the locker itself issued: "cuda" (line 268), "cpu" (line 282)
\* or "none"; last.vram holds what _offload_unlocked_models read at line 401
NoCall == [op |-> "none", key |-> RequestSeq[1], g |-> 0, raised |-> "none",
           hit |-> FALSE, est |-> 0, scan |-> <<>>, moved |-> <<>>,
           own |-> "none", vram |-> <<>>]

\* ---------------------------------------------------------------- provider
\* whether the object the provider builds for a key has a to() method and a
\* device attribute (a torch module) or neither (a tokenizer)
HasTo(key) == key[2] # "tokenizer"

\* -------------------------------------------------------------- get_model
\* lines 222-228
UpdateStats(st, cm, recs, key, size_now) ==
    IF st.on
    THEN [st EXCEPT !.cache_size = max_cache_size * GIG,
                    !.high_watermark = Max(@, cache_size_bytes(cm, recs)),
                    !.in_cache = Len(cm),
                    !.loaded_model_sizes[key] = Max(@, size_now)]
    ELSE st

\* lines 230-232
MoveToMRUNoRemove(stack, key) == Append(stack, key)

MoveToMRU(stack, key) == Append(ListRemove(stack, key), key)

\* lines 216-217
Register(cm, key, r) == Append(cm, [key |-> key, rec |-> r])

\* ModelLocker.__init__
ModelLocker(cm, key, gpu_load) ==
    [used |-> TRUE, key |-> key, rec |-> Lookup(cm, key), gpu_load |-> gpu_load,
     open |-> FALSE]

\* the cache when model_info.get_model raises at line 212: what
\* _make_cache_room left, nothing registered under the key
AfterFailedLoadPartial(room, key) == [cm |-> room.cm, stack |-> Append(room.stack, key)]

AfterFailedLoad(room, key) == [cm |-> room.cm, stack |-> room.stack]

\* lines 203-204 and 219-220
CountMiss(st) == IF st.on THEN [st EXCEPT !.misses = @ + 1] ELSE st

CountHitAsMiss(st) == CountMiss(st)

CountHit(st) == IF st.on THEN [st EXCEPT !.hits = @ + 1] ELSE st

\* _get_model_info, lines 162-171
get_model_info(infos, model_path) == infos \cup {get_key(model_path, None)}

\* lines 186-187: the path is checked before anything else is touched
RaiseNotFoundAfterInfo(model_path, base) ==
    [infos |-> get_model_info(model_infos, model_path), cm |-> cached_models,
     stack |-> cache_stack, stats |-> stats, recs |-> records, ok |-> FALSE,
     call |-> [base EXCEPT !.raised = "notfound"]]

RaiseNotFound(model_path, base) ==
    [infos |-> model_infos, cm |-> cached_models, stack |-> cache_stack,
     stats |-> stats, recs |-> records, ok |-> FALSE,
     call |-> [base EXCEPT !.raised = "notfound"]]

\* est is model_info.get_size(submodel) as read before the load (line 208,
\* or line 227 on a hit), actual as read after it (lines 213 and 227)
get_model(model_path, submodel, exists, est, load_ok, actual, refs) ==
    LET key == get_key(model_path, submodel)
        infos == get_model_info(model_infos, model_path)
        hit == Lookup(cached_models, key) # NoRec
        missed == CountMiss(stats)
        room == make_cache_room(cached_models, cache_stack, missed, records, refs, est)
        r == KeyIndex(key)
        recs2 == [records EXCEPT ![r] = CacheRecord(actual, HasTo(key))]
        cm2 == Register(room.cm, key, r)
        base == [NoCall EXCEPT !.op = "get", !.key = key, !.est = est]
    IN  IF ~exists
        THEN RaiseNotFound(model_path, base)
        ELSE IF hit
        THEN [infos |-> infos, cm |-> cached_models,
              stack |-> MoveToMRU(cache_stack, key),
              stats |-> UpdateStats(CountHit(stats), cached_models, records, key, est),
              recs |-> records, ok |-> TRUE,
              call |-> [base EXCEPT !.hit = TRUE]]
        ELSE IF ~load_ok
        THEN [infos |-> infos, cm |-> AfterFailedLoad(room, key).cm,
              stack |-> AfterFailedLoad(room, key).stack,
              stats |-> room.stats, recs |-> records, ok |-> FALSE,
              call |-> [base EXCEPT !.raised = "load", !.scan = room.scan]]
        ELSE [infos |-> infos, cm |-> cm2, stack |-> MoveToMRU(room.stack, key),
              stats |-> UpdateStats(room.stats, cm2, recs2, key, actual),
              recs |-> recs2, ok |-> TRUE,
              call |-> [base EXCEPT !.scan = room.scan]]

\* sys.getrefcount as _make_cache_room reads it.  The counts that cannot
\* influence the call are pinned: those of keys that are not cached, and
\* those of keys for which line 378 does not consult the count
RefInputs(miss) ==
    {refs \in [Requests -> RefCounts] :
        \A k \in Requests :
            (~miss \/ Lookup(cached_models, k) = NoRec \/ ~IsOnnx(k)) => refs[k] = 2}

\* inputs the handler does not read on the path taken are pinned
GetModelEnv(keys, sizes, guards, loads) ==
    \E key \in keys, exists \in BOOLEAN :
      LET miss == exists /\ Lookup(cached_models, key) = NoRec
      IN
      \E est \in (IF miss \/ (exists /\ stats.on) THEN sizes ELSE {1}),
         load_ok \in (IF miss THEN BOOLEAN ELSE {TRUE}) :
        \E actual \in (IF miss /\ load_ok THEN sizes ELSE {1}),
           refs \in RefInputs(miss),
           gpu_load \in (IF exists /\ load_ok THEN loads ELSE {TRUE}),
           g \in (IF exists /\ load_ok THEN {0} \cup guards ELSE {0}) :
          LET res == get_model(key[1], key[2], exists, est, load_ok, actual, refs)
              lks == IF res.ok /\ g # 0
                     THEN [lockers EXCEPT ![g] = ModelLocker(res.cm, key, gpu_load)]
                     ELSE lockers
          IN  /\ last = NoCall
              /\ g # 0 => ~lockers[g].used
              /\ stats.on => stats.hits + stats.misses < MaxOps
              /\ model_infos' = res.infos
              /\ cached_models' = CanonDict(res.cm, lks)
              /\ cache_stack' = res.stack
              /\ stats' = res.stats
              /\ lockers' = CanonLockers(res.cm, lks)
              /\ records' = CanonRecs(res.recs, res.cm, lks)
              /\ last' = [res.call EXCEPT !.g = g]
              /\ UNCHANGED config

\* ---------------------------------------------------------- uncache_model
uncache_model_dict_only(cache_id) ==
    [stack |-> cache_stack, cm |-> DictDel(cached_models, cache_id)]

uncache_model(cache_id) ==
    [stack |-> ListRemove(cache_stack, cache_id),
     cm |-> DictDel(cached_models, cache_id)]

UncacheModelEnv(keys) ==
    \E cache_id \in keys :
        LET res == uncache_model(cache_id)
        IN  /\ last = NoCall
            /\ cache_stack' = res.stack
            /\ cached_models' = CanonDict(res.cm, lockers)
            /\ lockers' = CanonLockers(res.cm, lockers)
            /\ records' = CanonRecs(records, res.cm, lockers)
            /\ last' = [NoCall EXCEPT !.op = "uncache", !.key = cache_id,
                                      !.hit = (Lookup(cached_models, cache_id) # NoRec)]
            /\ UNCHANGED <<config, stats, model_infos>>

\* ------------------------------------------------- ModelLocker.__enter__
\* the except clause of lines 274-276
EnterCleanupLeak(rec) == rec

EnterCleanup(rec) == unlock(rec)

\* line 282 stands outside any try: what model.to raises, __enter__ raises
DemoteRaisedSuppressed(nTo, failAt) == "none"

DemoteRaised(nTo, failAt) == IF TransferRaises(nTo, failAt) THEN "transfer" ELSE "none"

locker_enter(lk, ext, failAt, failMoved) ==
    LET r == lk.rec
        entry == records[r]
        recs1 == [records EXCEPT ![r] = lock(entry)]
        off == IF lazy_offloading
               THEN offload_unlocked_models(cached_models, recs1, ext, 0, failAt, failMoved)
               ELSE [recs |-> recs1, raised |-> FALSE, nTo |-> 0, moved |-> <<>>,
                     vram |-> <<>>]
        toGpu == Transfer(off.recs[r], "cuda", off.nTo + 1, failAt, failMoved)
        toCpu == Transfer(entry, "cpu", 1, failAt, failMoved)
    IN  IF ~entry.hasTo
        THEN [recs |-> records, raised |-> "none", moved |-> <<>>,
              own |-> "none", vram |-> <<>>]
        ELSE IF lk.gpu_load
        THEN IF off.raised
             THEN [recs |-> [off.recs EXCEPT ![r] = EnterCleanup(@)],
                   raised |-> IF unlock_assert_fails(EnterCleanup(off.recs[r]))
                              THEN "assert" ELSE "offload",
                   moved |-> off.moved, own |-> "none", vram |-> off.vram]
             ELSE IF off.recs[r].device # "cuda"
             THEN IF TransferRaises(off.nTo + 1, failAt)
                  THEN [recs |-> [off.recs EXCEPT ![r] = EnterCleanup(toGpu)],
                        raised |-> IF unlock_assert_fails(EnterCleanup(toGpu))
                                   THEN "assert" ELSE "transfer",
                        moved |-> off.moved, own |-> "cuda", vram |-> off.vram]
                  ELSE [recs |-> [off.recs EXCEPT ![r] = toGpu], raised |-> "none",
                        moved |-> off.moved, own |-> "cuda", vram |-> off.vram]
             ELSE [recs |-> off.recs, raised |-> "none", moved |-> off.moved,
                   own |-> "none", vram |-> off.vram]
        ELSE IF loaded(entry) /\ ~locked(entry)
        THEN [recs |-> [records EXCEPT ![r] = toCpu],
              raised |-> DemoteRaised(1, failAt),
              moved |-> <<>>, own |-> "cpu", vram |-> <<>>]
        ELSE [recs |-> records, raised |-> "none", moved |-> <<>>,
              own |-> "none", vram |-> <<>>]

\* a with statement runs __exit__ only when __enter__ returned
LockerEnterEnv(guards, exts, fails) ==
    \E g \in guards, ext \in exts, failAt \in fails, failMoved \in BOOLEAN :
        LET res == locker_enter(lockers[g], ext, failAt, failMoved)
        IN  /\ last = NoCall
            /\ lockers[g].used /\ ~lockers[g].open
            /\ (failAt = 0 => ~failMoved)
            /\ records' = res.recs
            /\ lockers' = [lockers EXCEPT ![g].open = (res.raised = "none")]
            /\ last' = [NoCall EXCEPT !.op = "enter", !.key = lockers[g].key, !.g = g,
                                      !.raised = res.raised, !.moved = res.moved,
                                      !.own = res.own, !.vram = res.vram]
            /\ UNCHANGED <<config, stats, model_infos, cached_models, cache_stack>>

\* --------------------------------------------------- ModelLocker.__exit__
locker_exit(lk, ext, failAt, failMoved) ==
    LET r == lk.rec
        entry == records[r]
        recs1 == [records EXCEPT ![r] = unlock(entry)]
        off == offload_unlocked_models(cached_models, recs1, ext, 0, failAt, failMoved)
    IN  IF ~entry.hasTo
        THEN [recs |-> records, raised |-> "none", moved |-> <<>>, vram |-> <<>>]
        ELSE IF unlock_assert_fails(recs1[r])
        THEN [recs |-> recs1, raised |-> "assert", moved |-> <<>>, vram |-> <<>>]
        ELSE IF ~lazy_offloading
        THEN [recs |-> off.recs, raised |-> IF off.raised THEN "offload" ELSE "none",
              moved |-> off.moved, vram |-> off.vram]
        ELSE [recs |-> recs1, raised |-> "none", moved |-> <<>>, vram |-> <<>>]

LockerExitEnv(guards, exts, fails) ==
    \E g \in guards, ext \in exts, failAt \in fails, failMoved \in BOOLEAN :
        LET res == locker_exit(lockers[g], ext, failAt, failMoved)
        IN  /\ last = NoCall
            /\ lockers[g].used /\ lockers[g].open
            /\ (failAt = 0 => ~failMoved)
            /\ records[lockers[g].rec].hasTo => records[lockers[g].rec].locks > -MaxUnderflow
            /\ records' = res.recs
            /\ lockers' = [lockers EXCEPT ![g].open = FALSE]
            /\ last' = [NoCall EXCEPT !.op = "exit", !.key = lockers[g].key, !.g = g,
                                      !.raised = res.raised, !.moved = res.moved,
                                      !.vram = res.vram]
            /\ UNCHANGED <<config, stats, model_infos, cached_models, cache_stack>>

\* the caller lets go of a ModelLocker it is not inside of
DropLockerEnv(guards) ==
    \E g \in guards :
        /\ last = NoCall
        /\ lockers[g].used /\ ~lockers[g].open
        /\ LET lks == [lockers EXCEPT ![g] = NoLocker]
           IN  /\ lockers' = CanonLockers(cached_models, lks)
               /\ records' = CanonRecs(records, cached_models, lks)
        /\ last' = [NoCall EXCEPT !.op = "drop", !.key = lockers[g].key, !.g = g]
        /\ UNCHANGED <<config, stats, model_infos, cached_models, cache_stack>>

\* the owner of the cache installs a CacheStats object (cache.stats = ...)
SetStats ==
    /\ last = NoCall
    /\ ~stats.on
    /\ stats' = CacheStats
    /\ last' = [NoCall EXCEPT !.op = "setstats"]
    /\ UNCHANGED <<config, model_infos, cached_models, cache_stack, records, lockers>>

\* the call recorded in last has returned to its caller (or raised)
Return ==
    /\ last # NoCall
    /\ last' = NoCall
    /\ UNCHANGED <<config, stats, model_infos, cached_models, cache_stack, records, lockers>>

\* ------------------------------------------------------ ModelCache.__init__
ModelCacheInit(cache_sizes, vram_sizes, lazy_choices) ==
    /\ max_cache_size \in cache_sizes
    /\ max_vram_cache_size \in vram_sizes
    /\ \E lazy \in lazy_choices : lazy_offloading = (lazy /\ max_vram_cache_size > 0)
    /\ stats = NoStats
    /\ model_infos = {}
    /\ cached_models = <<>>
    /\ cache_stack = <<>>
    /\ records = [r \in RecIds |-> DeadRecord]
    /\ lockers = [g \in Guards |-> NoLocker]
    /\ last = NoCall

\* ---- the cache under load: every request, size estimate and reference
\* ---- count, both offloading modes, transfers that may raise, memory held by
\* ---- the rest of the process; the caller holds one ModelLocker at a time
Init == ModelCacheInit(CacheSizeChoices, VramSizeChoices, {TRUE})

GetModel == GetModelEnv(Requests, Sizes, {1}, BOOLEAN)

UncacheModel == UncacheModelEnv(Requests)

LockerEnter == LockerEnterEnv({1}, ExtVram, FailPoints)

LockerExit == LockerExitEnv({1}, ExtVram, FailPoints)

DropLocker == DropLockerEnv({1})

Next == GetModel \/ UncacheModel \/ LockerEnter \/ LockerExit \/ DropLocker \/ Return

Spec == Init /\ [][Next]_vars

\* ---- the lockers under load: two torch modules of one size in a cache with
\* ---- room for one, as many ModelLockers as Guards, both offloading modes,
\* ---- transfers that may raise, memory held by the rest of the process;
\* ---- the callers never call uncache_model
GuardRequests == {RequestSeq[1], RequestSeq[2]}

InitGuard == ModelCacheInit({1}, VramSizeChoices, {TRUE})

GuardGetModel == GetModelEnv(GuardRequests, {1}, Guards, BOOLEAN)

GuardLockerEnter == LockerEnterEnv(Guards, ExtVram, FailPoints)

GuardLockerExit == LockerExitEnv(Guards, ExtVram, FailPoints)

GuardDropLocker == DropLockerEnv(Guards)

NextGuard ==
    \/ GuardGetModel
    \/ GuardLockerEnter
    \/ GuardLockerExit
    \/ GuardDropLocker
    \/ Return

SpecGuard == InitGuard /\ [][NextGuard]_vars

\* ---- the lockers under load when every caller asks for the execution
\* ---- device (gpu_load=True, the default of get_model)
ExclusiveGetModel == GetModelEnv(GuardRequests, {1}, Guards, {TRUE})

NextExclusive ==
    \/ ExclusiveGetModel
    \/ GuardLockerEnter
    \/ GuardLockerExit
    \/ GuardDropLocker
    \/ Return

SpecExclusive == InitGuard /\ [][NextExclusive]_vars

\* ---- the cache with statistics: the owner installs a CacheStats object at
\* ---- some point; two torch modules, every size estimate and reference
\* ---- count, lazy offloading, one ModelLocker at a time, transfers that
\* ---- succeed
InitStats == ModelCacheInit(CacheSizeChoices, {1}, {TRUE})

StatsGetModel == GetModelEnv(GuardRequests, Sizes, {1}, BOOLEAN)

StatsLockerEnter == LockerEnterEnv({1}, {0}, {0})

StatsLockerExit == LockerExitEnv({1}, {0}, {0})

NextStats ==
    \/ SetStats
    \/ StatsGetModel
    \/ StatsLockerEnter
    \/ StatsLockerExit
    \/ DropLocker
    \/ Return

SpecStats == InitStats /\ [][NextStats]_vars

\* ------------------------------------------------------------ vocabulary
Cached(key) == Lookup(cached_models, key) # NoRec

Entry(key) == records[Lookup(cached_models, key)]

LockerRec(g) == records[lockers[g].rec]

Budget == max_cache_size * GIG

Reserve == max_vram_cache_size * GIG

SetOf(s) == {s[i] : i \in 1 .. Len(s)}

Pos(s, x) == CHOOSE i \in 1 .. Len(s) : s[i] = x

RECURSIVE IsSubSeq(_, _)
IsSubSeq(s, t) ==
    IF s = <<>> THEN TRUE
    ELSE IF t = <<>> THEN FALSE
    ELSE IF Head(s) = Head(t) THEN IsSubSeq(Tail(s), Tail(t))
    ELSE IsSubSeq(s, Tail(t))

GetReturned == last.op = "get" /\ last.raised = "none"

MissLoaded == GetReturned /\ ~last.hit

NoEntryLocked == \A k \in Requests : Cached(k) => ~locked(Entry(k))

TypeOK ==
    /\ \A r \in RecIds : records[r].locks \in -MaxUnderflow .. MaxGuards
    /\ \A g \in Guards : lockers[g].used => records[lockers[g].rec].live
    /\ \A i \in 1 .. Len(cached_models) :
          /\ records[cached_models[i].rec].live
          /\ cached_models[i].rec = KeyIndex(cached_models[i].key)

\* ------------------------------------------------------------------ claims

\* C1: while a handle is locked, no get for another key removes it from
\* entries and lruOrder, whatever the sizes and keys requested.
C1_LockedNeverEvicted ==
    [][\A k \in Requests :
          (last = NoCall /\ Cached(k) /\ locked(Entry(k))
             /\ last'.op = "get" /\ last'.key # k)
          => (Lookup(cached_models', k) # NoRec /\ k \in SetOf(cache_stack'))]_vars

\* C2: between a successful exclusive acquire and its release, no step of
\* another guard moves the guarded module from the execution tier to the
\* storage tier.
C2_InUseNeverOffloaded ==
    [][\A g \in Guards :
          (lockers[g].used /\ lockers[g].open /\ lockers[g].gpu_load
             /\ LockerRec(g).hasTo /\ LockerRec(g).device = "cuda"
             /\ lockers'[g].open)
          => records'[lockers'[g].rec].device = "cuda"]_vars

\* C3: the lock count of every handle is non-negative in every reachable
\* state; an unlock at count 0 does not leave a negative count.
C3_LockCountNonNegative ==
    \A r \in RecIds : records[r].live => records[r].locks >= 0

\* C4: when an exclusive acquire raises (in the offload step or in the
\* transfer), the handle's lock count is what it was before the acquire and
\* the guard is not open, so no release runs for it.
C4_NoLockLeak ==
    [][(last = NoCall /\ last'.op = "enter" /\ last'.raised # "none"
          /\ lockers[last'.g].gpu_load)
       => /\ ~lockers'[last'.g].open
          /\ records'[lockers'[last'.g].rec].locks = LockerRec(last'.g).locks]_vars

C4_Witness ==
    /\ last.op = "enter"
    /\ last.raised = "offload"
    /\ lockers[last.g].gpu_load
    /\ LockerRec(last.g).hasTo
    /\ ~lockers[last.g].open

\* C5: acquire and release of a non-exclusive guard on a transferable
\* resource leave the handle's lock count as it was, and the release does
\* not fail on the lock count.
C5_NonExclusiveKeepsLockCount ==
    [][(last = NoCall /\ last'.op \in {"enter", "exit"}
          /\ ~lockers[last'.g].gpu_load /\ LockerRec(last'.g).hasTo)
       => /\ records'[lockers'[last'.g].rec].locks = LockerRec(last'.g).locks
          /\ last'.raised # "assert"]_vars

\* C6 (as claimed): after every miss-driven load with no handle locked, the
\* total size of the tracked handles is at most the storage budget.
C6_CapacityInvariant ==
    (MissLoaded /\ NoEntryLocked) => cache_size_bytes(cached_models, records) <= Budget

\* C6 (amended): ... provided also that the scan kept no handle for its
\* reference count, that the size the load reports is the size makeRoom was
\* asked for, and that this size does not exceed the budget.
C6_CapacityAmended ==
    (/\ MissLoaded
     /\ NoEntryLocked
     /\ \A i \in 1 .. Len(last.scan) : last.scan[i].evicted
     /\ Entry(last.key).size = last.est
     /\ last.est <= Budget)
    => cache_size_bytes(cached_models, records) <= Budget

C6_Witness ==
    /\ MissLoaded
    /\ NoEntryLocked
    /\ Len(last.scan) > 0
    /\ \A i \in 1 .. Len(last.scan) : last.scan[i].evicted
    /\ Entry(last.key).size = last.est
    /\ last.est <= Budget
    /\ Len(cached_models) >= 2

\* the keys a get removed from the cache, and the keys older than e that it kept
Evicted == DictKeys(cached_models) \ DictKeys(cached_models')

KeptOlder(e) ==
    {s \in DictKeys(cached_models) \cap DictKeys(cached_models') :
        Pos(cache_stack, s) < Pos(cache_stack, e)}

LastEvicted ==
    CHOOSE e \in Evicted : \A f \in Evicted : Pos(cache_stack, f) <= Pos(cache_stack, e)

RECURSIVE SizeOfKeys(_)
SizeOfKeys(S) ==
    IF S = {} THEN 0
    ELSE LET k == CHOOSE x \in S : TRUE IN Entry(k).size + SizeOfKeys(S \ {k})

\* C7 (as claimed): whenever makeRoom evicts a handle, every handle accessed
\* less recently that is still tracked is locked.
C7_LRUEvictionOrder ==
    [][(last = NoCall /\ last'.op = "get")
       => \A e \in Evicted : \A s \in KeptOlder(e) : locked(Entry(s))]_vars

\* C7 (amended): ... is locked or was kept by the scan because its reference
\* count was above the safe-to-evict threshold of 3; and the scan evicts no
\* more than it needs: without its last eviction the request would not fit.
C7_LRUEvictionAmended ==
    [][(last = NoCall /\ last'.op = "get")
       => /\ \A e \in Evicted : \A s \in KeptOlder(e) :
                \E i \in 1 .. Len(last'.scan) :
                   /\ last'.scan[i].key = s
                   /\ ~last'.scan[i].evicted
                   /\ (locked(Entry(s)) \/ last'.scan[i].refs > 3)
          /\ Evicted # {} =>
                cache_size_bytes(cached_models, records)
                   - SizeOfKeys(Evicted \ {LastEvicted}) + last'.est > Budget]_vars

C7_Witness ==
    /\ last.op = "get"
    /\ \E i, j \in 1 .. Len(last.scan) :
          i < j /\ ~last.scan[i].evicted /\ last.scan[j].evicted

\* C8: in eager mode, once a release has taken down the last lock, the
\* modules obtained through the cache occupy at most the reserve of the
\* execution tier.
C8_EagerHeadroom ==
    (/\ ~lazy_offloading
     /\ last.op = "exit" /\ last.raised = "none"
     /\ lockers[last.g].gpu_load
     /\ \A r \in RecIds : records[r].live => ~locked(records[r]))
    => ModelVram(records) <= Reserve

\* C9 (as claimed): a get whose load raises leaves entries and lruOrder as
\* they were.
C9_FailedLoadUnchanged ==
    [][(last = NoCall /\ last'.op = "get" /\ last'.raised = "load")
       => (cached_models' = cached_models /\ cache_stack' = cache_stack)]_vars

\* C9 (amended): a get whose load raises registers no handle for the
\* requested key; entries and lruOrder lose only what makeRoom evicted for
\* the load: the handles that remain are the same, in the same order, and
\* the total size has not grown.
C9_FailedLoadAmended ==
    [][(last = NoCall /\ last'.op = "get" /\ last'.raised = "load")
       => /\ Lookup(cached_models', last'.key) = NoRec
          /\ last'.key \notin SetOf(cache_stack')
          /\ IsSubSeq(cache_stack', cache_stack)
          /\ IsSubSeq(cached_models', cached_models)
          /\ \A k \in DictKeys(cached_models') :
                records'[Lookup(cached_models', k)] = Entry(k)
          /\ cache_size_bytes(cached_models', records')
                <= cache_size_bytes(cached_models, records)]_vars

C9_Witness ==
    /\ last.op = "get"
    /\ last.raised = "load"
    /\ \E i \in 1 .. Len(last.scan) : last.scan[i].evicted
    /\ Len(cached_models) >= 1

\* C10: lruOrder holds exactly the keys of entries, each once, and after a
\* successful get the requested key is its last element.
C10_RegistryLruConsistent ==
    /\ SetOf(cache_stack) = DictKeys(cached_models)
    /\ Len(cache_stack) = Cardinality(SetOf(cache_stack))
    /\ Len(cached_models) = Cardinality(DictKeys(cached_models))
    /\ GetReturned => (Len(cache_stack) > 0 /\ cache_stack[Len(cache_stack)] = last.key)

C10_Witness ==
    /\ GetReturned
    /\ last.hit
    /\ Len(cache_stack) >= 2

\* the ModelLockers obtained for key with gpu_load=True that are inside their
\* with block
OpenGuards(key) ==
    {g \in Guards : lockers[g].used /\ lockers[g].open /\ lockers[g].gpu_load
                        /\ lockers[g].key = key}

\* C11: when only exclusive guards are used, the lock count of the handle
\* registered under a key equals the number of open exclusive guards
\* obtained for that key.
C11_NestedRefCounted ==
    \A k \in Requests :
        Cached(k) => Entry(k).locks = Cardinality(OpenGuards(k))

\* C12: uncache_model removes the key from entries and lruOrder whatever its
\* lock count; for an absent key it changes nothing; the other keys keep
\* their handles, lock counts and relative LRU order.
C12_UntrackUnconditional ==
    [][(last = NoCall /\ last'.op = "uncache")
       => LET key == last'.key
          IN  /\ Lookup(cached_models', key) = NoRec
              /\ key \notin SetOf(cache_stack')
              /\ ~Cached(key) =>
                    /\ cached_models' = cached_models
                    /\ cache_stack' = cache_stack
                    /\ records' = records
                    /\ lockers' = lockers
                    /\ stats' = stats
              /\ \A k \in Requests \ {key} :
                    /\ Cached(k) <=> Lookup(cached_models', k) # NoRec
                    /\ Cached(k) => records'[Lookup(cached_models', k)] = Entry(k)
              /\ cache_stack' = SelectSeq(cache_stack, LAMBDA x : x # key)]_vars

C12_Witness ==
    /\ last.op = "uncache"
    /\ last.hit
    /\ ~Cached(last.key)
    /\ \E g \in Guards :
          /\ lockers[g].used /\ lockers[g].open /\ lockers[g].key = last.key
          /\ locked(LockerRec(g))
    /\ Len(cache_stack) >= 1
    /\ cache_stack[Len(cache_stack)] # RequestSeq[3]

\* an exclusive __enter__ on a module that is on the execution device
EnterOnResident ==
    /\ last = NoCall
    /\ last'.op = "enter"
    /\ lockers[last'.g].gpu_load
    /\ LockerRec(last'.g).hasTo
    /\ LockerRec(last'.g).device = "cuda"

EnterNonExclusive ==
    /\ last = NoCall
    /\ last'.op = "enter"
    /\ ~lockers[last'.g].gpu_load
    /\ LockerRec(last'.g).hasTo

\* C14 (as claimed): a non-exclusive acquire never raises, whatever the
\* demotion transfer does, and returns the resource.
C14_AdvisoryDemote ==
    [][EnterNonExclusive => (last'.raised = "none" /\ lockers'[last'.g].open)]_vars

\* C14 (amended): the demotion is attempted exactly when the module is on
\* the execution device and unlocked; if its transfer raises, the acquire
\* raises, the guard is not open and no lock count has changed.
C14_DemoteErrorPropagates ==
    [][EnterNonExclusive
       => LET r == lockers[last'.g].rec
          IN  /\ (last'.own = "cpu") <=> (loaded(records[r]) /\ ~locked(records[r]))
              /\ last'.own # "cpu" => (last'.raised = "none" /\ records' = records)
              /\ (last'.own = "cpu" /\ records'[r].device # "cpu") =>
                    last'.raised = "transfer"
              /\ last'.raised \in {"none", "transfer"}
              /\ lockers'[last'.g].open <=> last'.raised = "none"
              /\ \A q \in RecIds : records'[q].locks = records[q].locks
              /\ \A q \in RecIds \ {r} : records'[q] = records[q]]_vars

C14_Witness ==
    /\ last.op = "enter"
    /\ ~lockers[last.g].gpu_load
    /\ last.own = "cpu"
    /\ last.raised = "transfer"
    /\ ~lockers[last.g].open
    /\ LockerRec(last.g).device = "cuda"

\* the keys a get for a missing key left in the cache
Remaining == DictKeys(cached_models') \ {last'.key}

\* a get that missed, whose scan left only locked handles and not enough room
Shortfall ==
    /\ last = NoCall
    /\ last'.op = "get"
    /\ ~Cached(last'.key)
    /\ last'.raised \notin {"notfound", "load"}
    /\ Remaining # {}
    /\ \A k \in Remaining : locked(Entry(k))
    /\ SizeOfKeys(Remaining) + last'.est > Budget

\* what C15 says in both readings: the get returns, the new handle is
\* registered with lock count 0, the locked handles stay as they are
ShortfallProceeds ==
    /\ last'.raised = "none"
    /\ Lookup(cached_models', last'.key) # NoRec
    /\ records'[Lookup(cached_models', last'.key)].locks = 0
    /\ Len(last'.scan) <= Len(cache_stack)
    /\ \A k \in Remaining : records'[Lookup(cached_models', k)] = Entry(k)

\* C15 (as claimed): when every remaining handle is locked and the budget
\* cannot be met, the get does not fail, the new handle is registered with
\* lock count 0 and the cache is over budget.
C15_ShortfallOverBudget ==
    [][Shortfall
       => /\ ShortfallProceeds
          /\ cache_size_bytes(cached_models', records') > Budget]_vars

\* C15 (amended): ... and the cache is over budget if the loaded resource
\* is at least as large as the size makeRoom was asked for.
C15_ShortfallAmended ==
    [][Shortfall
       => /\ ShortfallProceeds
          /\ records'[Lookup(cached_models', last'.key)].size >= last'.est =>
                cache_size_bytes(cached_models', records') > Budget]_vars

C15_Witness ==
    /\ MissLoaded
    /\ Len(last.scan) > 0
    /\ \A i \in 1 .. Len(last.scan) : ~last.scan[i].evicted /\ last.scan[i].locked
    /\ \A k \in DictKeys(cached_models) \ {last.key} : locked(Entry(k))
    /\ Entry(last.key).locks = 0
    /\ Entry(last.key).size >= last.est
    /\ cache_size_bytes(cached_models, records) > Budget

C17_NotFoundUnchanged ==
    [][(last = NoCall /\ last'.op = "get" /\ last'.raised = "notfound")
       => /\ cached_models' = cached_models
          /\ cache_stack' = cache_stack
          /\ model_infos' = model_infos
          /\ stats' = stats
          /\ records' = records
          /\ lockers' = lockers
          /\ last'.scan = <<>>]_vars

C17_Witness ==
    /\ last.op = "get"
    /\ last.raised = "notfound"
    /\ stats.on
    /\ get_key(last.key[1], None) \notin model_infos
    /\ Len(cached_models) >= 1

\* the records as _offload_unlocked_models finds them when __enter__ or
\* __exit__ of the locker of the call calls it: after the locker's lock or
\* unlock
PassRecs ==
    LET r == lockers[last'.g].rec
    IN  IF last'.op = "enter" THEN [records EXCEPT ![r] = lock(@)]
        ELSE [records EXCEPT ![r] = unlock(@)]

\* a call of __enter__ or __exit__ that ran _offload_unlocked_models
OffloadPass ==
    /\ last = NoCall
    /\ last'.op \in {"enter", "exit"}
    /\ last'.vram # <<>>

\* C18: within one offload pass, when a handle of size s is transferred,
\* every unlocked resident handle of smaller size was transferred earlier in
\* the pass; the sizes transferred never decrease.
C18_OffloadAscendingSize ==
    [][OffloadPass
       => \A i \in 1 .. Len(last'.moved) :
             /\ \A k \in DictKeys(cached_models) :
                   (/\ OffloadCandidate(PassRecs[Lookup(cached_models, k)])
                    /\ PassRecs[Lookup(cached_models, k)].size < last'.moved[i].size)
                   => \E j \in 1 .. (i - 1) : last'.moved[j].key = k
             /\ \A j \in 1 .. (i - 1) : last'.moved[j].size <= last'.moved[i].size]_vars

C18_Witness ==
    /\ last.op \in {"enter", "exit"}
    /\ Len(last.moved) >= 2
    /\ last.moved[1].size < last.moved[2].size
    /\ Pos(cache_stack, last.moved[1].key) > Pos(cache_stack, last.moved[2].key)

\* the usage _offload_unlocked_models tracks (vram_in_use) when its loop ends
FinalUsage ==
    IF last'.moved = <<>> THEN last'.vram[1]
    ELSE last'.moved[Len(last'.moved)].vram_after

\* the pass returned instead of raising
PassReturned ==
    IF last'.op = "enter" THEN (last'.raised = "none" \/ last'.own = "cuda")
    ELSE last'.raised = "none"

\* the records whose state at the end of the call is their state at the end
\* of the pass: all of them, but the locker's own after __enter__
AfterPass ==
    IF last'.op = "enter" THEN DictRecs(cached_models) \ {lockers[last'.g].rec}
    ELSE DictRecs(cached_models)

\* C19: an offload pass transfers a handle only while the usage it tracks
\* exceeds the reserve, only unlocked resident registered handles, and when
\* it returns the usage is at or below the reserve or no unlocked resident
\* handle remains registered.
C19_OffloadOnlyAboveReserve ==
    [][OffloadPass
       => /\ \A i \in 1 .. Len(last'.moved) :
                /\ last'.moved[i].vram_before > Reserve
                /\ last'.moved[i].vram_before =
                      (IF i = 1 THEN last'.vram[1] ELSE last'.moved[i - 1].vram_after)
                /\ last'.moved[i].vram_after = last'.moved[i].vram_before - last'.moved[i].size
                /\ Cached(last'.moved[i].key)
                /\ OffloadCandidate(PassRecs[Lookup(cached_models, last'.moved[i].key)])
          /\ last'.vram[1] <= Reserve =>
                /\ last'.moved = <<>>
                /\ \A q \in AfterPass : records'[q].device = records[q].device
          /\ PassReturned =>
                \/ FinalUsage <= Reserve
                \/ \A q \in AfterPass : ~OffloadCandidate(records'[q])]_vars

C19_Witness ==
    /\ last.op \in {"enter", "exit"}
    /\ last.raised = "none"
    /\ Len(last.moved) >= 1
    /\ Reserve > 0
    /\ last.moved[Len(last.moved)].vram_after = Reserve

\* C20: at every acquire of a guard returned by get_model (no uncache_model
\* having been called), the record the guard locks and promotes is the one
\* registered in entries under the guard's key.
C20_GuardOnRegisteredHandle ==
    [][(last = NoCall /\ last'.op = "enter")
       => lockers[last'.g].rec = Lookup(cached_models, lockers[last'.g].key)]_vars

====
